---- MODULE Spec2Model ----
(***************************************************************************)
(* Participant tally tool (src/app.js): the aggregation core.              *)
(*                                                                         *)
(* aggregate(files, cfg) is an async function.  Its body runs to           *)
(* completion between two awaits, so one action is one such stretch: the   *)
(* call up to the first `await parseCSV`, and each settlement of parseCSV  *)
(* (resolved with the data rows, or rejected) up to the next await or the  *)
(* return.                                                                 *)
(*                                                                         *)
(* Strings that the code trims or lower-cases (cells, the condition) are   *)
(* sequences of one-character strings; file names, which the code only     *)
(* uses as property keys and compares, are TLA+ strings.                   *)
(*                                                                         *)
(* Spec and SpecGiven run aggregate alone.  SpecRate applies the rate      *)
(* expression of the return to given totals.  SpecUI is the page: the      *)
(* upload list, the settings inputs, the run button and `result`, with     *)
(* every click handler that is suspended in aggregate kept in the bag      *)
(* `runs`; its actions are the event handlers and the settlements of       *)
(* parseCSV, interleaved as the event loop allows.                         *)
(***************************************************************************)
EXTENDS Integers, Sequences, FiniteSets, Bags, TLC

\* ------------------------------------------------------------------ bounds
\* Longest file list handed to aggregate in Spec.
MaxFiles == 2
\* Most data rows of one decoded file in Spec (RowPool rows each).
MaxRows == 2
\* Longest file list in SpecGiven, where the decode outcomes are fixed up front.
MaxGiven == 3

\* ----------------------------------------------------------------- strings
\* The ASCII letters with a lower-case form.
LowerOf ==
    ("A" :> "a") @@ ("B" :> "b") @@ ("C" :> "c") @@ ("D" :> "d") @@ ("E" :> "e") @@
    ("F" :> "f") @@ ("G" :> "g") @@ ("H" :> "h") @@ ("I" :> "i") @@ ("J" :> "j") @@
    ("K" :> "k") @@ ("L" :> "l") @@ ("M" :> "m") @@ ("N" :> "n") @@ ("O" :> "o") @@
    ("P" :> "p") @@ ("Q" :> "q") @@ ("R" :> "r") @@ ("S" :> "s") @@ ("T" :> "t") @@
    ("U" :> "u") @@ ("V" :> "v") @@ ("W" :> "w") @@ ("X" :> "x") @@ ("Y" :> "y") @@
    ("Z" :> "z")

\* The characters String.prototype.trim removes (those the pools use).
WhiteSpace == {" ", "\t"}

ToLowerChar(c) == IF c \in DOMAIN LowerOf THEN LowerOf[c] ELSE c

\* String.prototype.toLowerCase
ToLowerCase(s) == [i \in 1..Len(s) |-> ToLowerChar(s[i])]

RECURSIVE TrimStart(_)
TrimStart(s) ==
    IF s # <<>> /\ Head(s) \in WhiteSpace THEN TrimStart(Tail(s)) ELSE s

RECURSIVE TrimEnd(_)
TrimEnd(s) ==
    IF s # <<>> /\ s[Len(s)] \in WhiteSpace
    THEN TrimEnd(SubSeq(s, 1, Len(s) - 1))
    ELSE s

\* String.prototype.trim
Trim(s) == TrimEnd(TrimStart(s))

\* ------------------------------------------------------------ configuration
\* cfg as the click handler builds it (zero-based column indices).
Str_approved == <<"a","p","p","r","o","v","e","d">>

Configs ==
    { [pkIdx |-> 0, nameIdx |-> 1, statusIdx |-> 2,
       condition |-> Str_approved, headerRow |-> 1] }

\* ------------------------------------------------- duplicate-file filter
\* File names the input lists are drawn from.  None is an array index
\* ("0", "1", ...), which Object.entries would list first.
FileNames == {"a.csv", "b.csv", "constructor"}

\* Properties every plain object inherits from Object.prototype: a read of
\* nameCnt[n] for such an n that is no own property yields a function (or,
\* for __proto__, the prototype object), not undefined.
ObjectPrototypeProps ==
    {"constructor", "__proto__", "toString", "toLocaleString", "valueOf",
     "hasOwnProperty", "isPrototypeOf", "propertyIsEnumerable",
     "__defineGetter__", "__defineSetter__", "__lookupGetter__",
     "__lookupSetter__"}

\* nameCnt = {} is a sequence of own properties in insertion order; a value
\* is a number (num, n) or the string that `function + 1` or `object + 1`
\* concatenates to (num = FALSE), which compares as NaN.
OwnIndex(obj, n) ==
    IF \E i \in 1..Len(obj) : obj[i].name = n
    THEN CHOOSE i \in 1..Len(obj) : obj[i].name = n
    ELSE 0

\* nameCnt[f.name] = (nameCnt[f.name] || 0) + 1
CountName(nameCnt, n) ==
    LET i == OwnIndex(nameCnt, n)
        val == IF i > 0
               THEN (IF nameCnt[i].num
                     THEN [num |-> TRUE, n |-> nameCnt[i].n + 1]
                     ELSE [num |-> FALSE, n |-> 0])
               ELSE IF n \in ObjectPrototypeProps
                    THEN [num |-> FALSE, n |-> 0]
                    ELSE [num |-> TRUE, n |-> 1]
    IN  IF n = "__proto__"
        THEN nameCnt    \* the __proto__ setter ignores a primitive
        ELSE IF i > 0
             THEN [nameCnt EXCEPT ![i] = [name |-> n, num |-> val.num, n |-> val.n]]
             ELSE Append(nameCnt, [name |-> n, num |-> val.num, n |-> val.n])

RECURSIVE CountNames(_, _)
CountNames(names, nameCnt) ==
    IF names = <<>> THEN nameCnt
    ELSE CountNames(Tail(names), CountName(nameCnt, Head(names)))

\* c > 1 on an entry's value: false for the NaN strings.
IsDupEntry(e) == e.num /\ e.n > 1

\* dupNames, in Set order (the order of Object.entries)
DupNames(names) ==
    LET ents == SelectSeq(CountNames(names, <<>>), IsDupEntry)
    IN  [i \in 1..Len(ents) |-> ents[i].name]

SeqRange(s) == {s[i] : i \in 1..Len(s)}

\* The elements of seq at the positions idxs, in that order.
Pick(seq, idxs) == [j \in 1..Len(idxs) |-> seq[idxs[j]]]

\* Only the later files of a duplicated name are dropped; the first is kept.
RECURSIVE FilterFrom_KeepFirst(_, _, _)
FilterFrom_KeepFirst(names, dups, i) ==
    IF i > Len(names) THEN <<>>
    ELSE (IF names[i] \in dups /\ \E j \in 1..(i - 1) : names[j] = names[i]
          THEN <<>> ELSE <<i>>) \o FilterFrom_KeepFirst(names, dups, i + 1)

\* files.filter(f => !dupNames.has(f.name)), as indices into files
RECURSIVE FilterFrom(_, _, _)
FilterFrom(names, dups, i) ==
    IF i > Len(names) THEN <<>>
    ELSE (IF names[i] \in dups THEN <<>> ELSE <<i>>) \o FilterFrom(names, dups, i + 1)

ToProcess(names) == FilterFrom(names, SeqRange(DupNames(names)), 1)

SkippedDuplicates(names) ==
    LET d == DupNames(names)
    IN  [i \in 1..Len(d) |-> [name |-> d[i], reason |-> "duplicate_filename"]]

\* ------------------------------------------------------------------- rows
Str_K1       == <<"K","1">>
Str_K2       == <<"K","2">>
Str_Alice    == <<"A","l","i","c","e">>
Str_Bob      == <<"B","o","b">>
Str_Approved == <<"A","p","p","r","o","v","e","d">>
Str_declined == <<"d","e","c","l","i","n","e","d">>

\* The rows of the worked scenario: two matching rows of K1 that differ in
\* case, a key without a name, a name without a key.
ScenarioRows ==
    << <<Str_K1, Str_Alice, Str_Approved>>,
       <<Str_K1, Str_Alice, Str_approved>>,
       <<Str_K2, <<>>,      Str_approved>>,
       <<<<>>,   Str_Bob,   Str_approved>> >>

\* Rows the decoded files are drawn from: a match that differs from the
\* condition in case, a padded key with another spelling of the name and no
\* match, a padded upper-case match of a second key, a key without a name,
\* and a short row whose only cell is blank (name and status cells missing).
RowPool ==
    { << Str_K1, Str_Alice, Str_Approved >>,
      << <<" ","K","1"," ">>, <<"A","l","i","c","i","a"," ">>, Str_declined >>,
      << Str_K2, Str_Bob, <<" ","A","P","P","R","O","V","E","D","\t">> >>,
      << Str_K2, <<>>, Str_approved >>,
      << <<" ">> >> }

HeaderLine == << <<"i","d">>, <<"n","a","m","e">>, <<"s","t","a","t","u","s">> >>

RECURSIVE SeqsUpTo(_, _)
SeqsUpTo(S, n) ==
    IF n = 0 THEN {<<>>}
    ELSE LET shorter == SeqsUpTo(S, n - 1)
         IN  shorter \cup {Append(q, x) : q \in shorter, x \in S}

\* What Papa.parse may hand to `complete` as result.data: nothing at all, or
\* a header line and data lines.
DataPool ==
    {<<>>} \cup {<<HeaderLine>> \o rs : rs \in SeqsUpTo(RowPool, MaxRows) \cup {ScenarioRows}}

\* result.data.slice(headerRow)
Slice(data, headerRow) == SubSeq(data, headerRow + 1, Len(data))

\* row[idx] != null ? String(row[idx]).trim() : ''
Cell(row, idx) ==
    IF idx >= 0 /\ idx < Len(row) THEN Trim(row[idx + 1]) ELSE <<>>

\* status.toLowerCase() === condition.toLowerCase()
StatusMatches(status, condition) == ToLowerCase(status) = ToLowerCase(condition)

\* Variants of the row loop's body, each a slip the loop could contain.
\* count++ on every matching row instead of once per event.
ProcessRow_CountsEachRow(r, row, c) ==
    LET pk     == Cell(row, c.pkIdx)
        name   == Cell(row, c.nameIdx)
        status == Cell(row, c.statusIdx)
        m      == IF pk \in DOMAIN r.master THEN r.master
                  ELSE r.master @@ (pk :> [name |-> name, count |-> 0])
    IN  IF pk = <<>> THEN [r EXCEPT !.ignoredNoKey = @ + 1]
        ELSE IF name = <<>> THEN [r EXCEPT !.ignoredNoName = @ + 1]
        ELSE IF StatusMatches(status, c.condition)
             THEN [r EXCEPT !.master = [m EXCEPT ![pk].count = @ + 1],
                            !.eventApplicants = @ \cup {pk},
                            !.eventAttendees = @ \cup {pk}]
             ELSE [r EXCEPT !.master = m, !.eventApplicants = @ \cup {pk}]

\* The status is compared before the name is validated.
ProcessRow_StatusBeforeName(r, row, c) ==
    LET pk     == Cell(row, c.pkIdx)
        name   == Cell(row, c.nameIdx)
        status == Cell(row, c.statusIdx)
        att    == IF StatusMatches(status, c.condition)
                  THEN r.eventAttendees \cup {pk} ELSE r.eventAttendees
    IN  IF pk = <<>> THEN [r EXCEPT !.ignoredNoKey = @ + 1]
        ELSE IF name = <<>>
             THEN [r EXCEPT !.ignoredNoName = @ + 1, !.eventAttendees = att]
        ELSE [r EXCEPT
                !.master = IF pk \in DOMAIN @ THEN @
                           ELSE @ @@ (pk :> [name |-> name, count |-> 0]),
                !.eventApplicants = @ \cup {pk},
                !.eventAttendees = att]

\* master.set without the master.has guard: the record is replaced.
ProcessRow_Overwrite(r, row, c) ==
    LET pk     == Cell(row, c.pkIdx)
        name   == Cell(row, c.nameIdx)
        status == Cell(row, c.statusIdx)
    IN  IF pk = <<>> THEN [r EXCEPT !.ignoredNoKey = @ + 1]
        ELSE IF name = <<>> THEN [r EXCEPT !.ignoredNoName = @ + 1]
        ELSE [r EXCEPT
                !.master = (pk :> [name |-> name, count |-> 0]) @@ @,
                !.eventApplicants = @ \cup {pk},
                !.eventAttendees =
                    IF StatusMatches(status, c.condition) THEN @ \cup {pk} ELSE @]

\* The name of a known key is updated to the latest spelling.
ProcessRow_LastName(r, row, c) ==
    LET pk     == Cell(row, c.pkIdx)
        name   == Cell(row, c.nameIdx)
        status == Cell(row, c.statusIdx)
    IN  IF pk = <<>> THEN [r EXCEPT !.ignoredNoKey = @ + 1]
        ELSE IF name = <<>> THEN [r EXCEPT !.ignoredNoName = @ + 1]
        ELSE [r EXCEPT
                !.master = IF pk \in DOMAIN @ THEN [@ EXCEPT ![pk].name = name]
                           ELSE @ @@ (pk :> [name |-> name, count |-> 0]),
                !.eventApplicants = @ \cup {pk},
                !.eventAttendees =
                    IF StatusMatches(status, c.condition) THEN @ \cup {pk} ELSE @]

\* The name is validated before the key.
ProcessRow_NameFirst(r, row, c) ==
    LET pk     == Cell(row, c.pkIdx)
        name   == Cell(row, c.nameIdx)
        status == Cell(row, c.statusIdx)
    IN  IF name = <<>> THEN [r EXCEPT !.ignoredNoName = @ + 1]
        ELSE IF pk = <<>> THEN [r EXCEPT !.ignoredNoKey = @ + 1]
        ELSE [r EXCEPT
                !.master = IF pk \in DOMAIN @ THEN @
                           ELSE @ @@ (pk :> [name |-> name, count |-> 0]),
                !.eventApplicants = @ \cup {pk},
                !.eventAttendees =
                    IF StatusMatches(status, c.condition) THEN @ \cup {pk} ELSE @]

\* One pass of the row loop.  r holds the run's master, ignoredNoKey and
\* ignoredNoName and the event's two sets.
ProcessRow(r, row, c) ==
    LET pk     == Cell(row, c.pkIdx)
        name   == Cell(row, c.nameIdx)
        status == Cell(row, c.statusIdx)
    IN  IF pk = <<>> THEN [r EXCEPT !.ignoredNoKey = @ + 1]
        ELSE IF name = <<>> THEN [r EXCEPT !.ignoredNoName = @ + 1]
        ELSE [r EXCEPT
                !.master = IF pk \in DOMAIN @ THEN @
                           ELSE @ @@ (pk :> [name |-> name, count |-> 0]),
                !.eventApplicants = @ \cup {pk},
                !.eventAttendees =
                    IF StatusMatches(status, c.condition) THEN @ \cup {pk} ELSE @]

RECURSIVE ProcessRows(_, _, _)
ProcessRows(r, rows, c) ==
    IF rows = <<>> THEN r
    ELSE ProcessRows(ProcessRow(r, Head(rows), c), Tail(rows), c)

\* Attendance kept as a flag: only a first attendance is counted.
CountAttendance_FirstOnly(master, attendees) ==
    [k \in DOMAIN master |->
        IF k \in attendees /\ master[k].count = 0
        THEN [master[k] EXCEPT !.count = 1] ELSE master[k]]

\* master.get(pk).count++ for the event's attendees
CountAttendance(master, attendees) ==
    [k \in DOMAIN master |->
        IF k \in attendees THEN [master[k] EXCEPT !.count = @ + 1] ELSE master[k]]

\* The run-wide set replaced by the event's.
AddUnique_Overwrite(attendUniq, attendees) == attendees

\* attendUniq.add(pk) for the event's attendees
AddUnique(attendUniq, attendees) == attendUniq \cup attendees

\* The run's accumulators as declared before the loop.
FreshRun(skippedDup) ==
    [master |-> <<>>, grossTotal |-> 0, attendTotal |-> 0, attendUniq |-> {},
     ignoredNoKey |-> 0, ignoredNoName |-> 0, processed |-> 0,
     skipped |-> skippedDup]

\* The event's sets not created afresh: they carry over the earlier events.
NewEvent_Reused(run) ==
    [master |-> run.master, ignoredNoKey |-> run.ignoredNoKey,
     ignoredNoName |-> run.ignoredNoName,
     eventApplicants |-> DOMAIN run.master, eventAttendees |-> run.attendUniq]

\* What the row loop of one file works on: the run's master and ignored-row
\* counters and the event's two new sets.
NewEvent(run) ==
    [master |-> run.master, ignoredNoKey |-> run.ignoredNoKey,
     ignoredNoName |-> run.ignoredNoName,
     eventApplicants |-> {}, eventAttendees |-> {}]

\* The loop body after parseCSV resolved with rows.
FoldFile(run, rows, c) ==
    LET r == ProcessRows(NewEvent(run), rows, c)
    IN  [master        |-> CountAttendance(r.master, r.eventAttendees),
         grossTotal    |-> run.grossTotal + Cardinality(r.eventApplicants),
         attendTotal   |-> run.attendTotal + Cardinality(r.eventAttendees),
         attendUniq    |-> AddUnique(run.attendUniq, r.eventAttendees),
         ignoredNoKey  |-> r.ignoredNoKey,
         ignoredNoName |-> r.ignoredNoName,
         processed     |-> run.processed + 1,
         skipped       |-> run.skipped]

\* The catch branch after parseCSV rejected.
SkipFile(run, fileName) ==
    [run EXCEPT !.skipped = Append(@, [name |-> fileName, reason |-> "parse_error"])]

\* ------------------------------------------------------------- the return
\* Collation of String.prototype.localeCompare(_, 'ja') on the characters of
\* the pools: white space sorts before digits, digits before letters, and
\* letters by the alphabet whatever their case.
Digits == <<"0","1","2","3","4","5","6","7","8","9">>

Alphabet ==
    <<"a","b","c","d","e","f","g","h","i","j","k","l","m",
      "n","o","p","q","r","s","t","u","v","w","x","y","z">>

PrimaryWeight(ch) ==
    LET l == ToLowerChar(ch)
    IN  IF ch = "\t" THEN 1
        ELSE IF ch = " " THEN 2
        ELSE IF \E i \in 1..Len(Digits) : Digits[i] = ch
             THEN 10 + (CHOOSE i \in 1..Len(Digits) : Digits[i] = ch)
        ELSE IF \E i \in 1..Len(Alphabet) : Alphabet[i] = l
             THEN 100 + (CHOOSE i \in 1..Len(Alphabet) : Alphabet[i] = l)
        ELSE 50

\* First level: the strings letter by letter, a prefix before its extensions.
RECURSIVE ComparePrimary(_, _)
ComparePrimary(a, b) ==
    IF a = <<>> THEN (IF b = <<>> THEN 0 ELSE -1)
    ELSE IF b = <<>> THEN 1
    ELSE IF PrimaryWeight(Head(a)) < PrimaryWeight(Head(b)) THEN -1
    ELSE IF PrimaryWeight(Head(a)) > PrimaryWeight(Head(b)) THEN 1
    ELSE ComparePrimary(Tail(a), Tail(b))

\* Last level, for strings equal at the first: at the first difference the
\* lower-case letter sorts first.
RECURSIVE CompareCase(_, _)
CompareCase(a, b) ==
    IF a = <<>> \/ b = <<>> THEN 0
    ELSE IF Head(a) = Head(b) THEN CompareCase(Tail(a), Tail(b))
    ELSE IF Head(a) = ToLowerChar(Head(a)) THEN -1 ELSE 1

\* String(a).localeCompare(String(b), 'ja')
LocaleCompare(a, b) ==
    IF ComparePrimary(a, b) # 0 THEN ComparePrimary(a, b) ELSE CompareCase(a, b)

\* The comparator with the counts the other way round.
CompareRows_Ascending(a, b) ==
    IF a[3] - b[3] # 0 THEN a[3] - b[3] ELSE LocaleCompare(a[1], b[1])

\* (a, b) => b[2] - a[2] || String(a[0]).localeCompare(String(b[0]), 'ja')
\* on rows <<primaryKey, name, attendanceCount>>
CompareRows(a, b) ==
    IF b[3] - a[3] # 0 THEN b[3] - a[3] ELSE LocaleCompare(a[1], b[1])

\* Array.prototype.sort is stable; on short arrays it inserts each element
\* behind the elements that do not compare greater.
RECURSIVE InsertRow(_, _)
InsertRow(sorted, row) ==
    IF sorted = <<>> THEN <<row>>
    ELSE IF CompareRows(row, Head(sorted)) < 0 THEN <<row>> \o sorted
    ELSE <<Head(sorted)>> \o InsertRow(Tail(sorted), row)

RECURSIVE SortFrom(_, _)
SortFrom(rows, sorted) ==
    IF rows = <<>> THEN sorted
    ELSE SortFrom(Tail(rows), InsertRow(sorted, Head(rows)))

SortRows(rows) == SortFrom(rows, <<>>)

\* The ledger rows limited to the keys that attended.
MasterRows_AttendeesOnly(master, order) ==
    SortRows(SelectSeq([i \in 1..Len(order) |->
                           <<order[i], master[order[i]].name, master[order[i]].count>>],
                       LAMBDA row : row[3] > 0))

\* [...master.entries()].map(([pk, o]) => [pk, o.name, o.count]).sort(...)
\* where order lists the keys as the Map iterates them (insertion order).
MasterRows(master, order) ==
    SortRows([i \in 1..Len(order) |->
                 <<order[i], master[order[i]].name, master[order[i]].count>>])

\* The orders in which a Map with the keys S can iterate them.
Orderings(S) == {o \in [1..Cardinality(S) -> S] : SeqRange(o) = S}

\* The direction in which the double nearest to a/g lies from a/g, 0 < a <= g:
\* the quotient's binary digits by long division, 53 of them from the leading
\* one, then round to nearest, ties to even.
RECURSIVE Normalize(_, _)
Normalize(a, g) == IF a >= g THEN a ELSE Normalize(2 * a, g)

RECURSIVE DivideBits(_, _, _, _)
DivideBits(rem, g, bits, last) ==
    IF bits = 0
    THEN (IF rem = 0 THEN "exact"
          ELSE IF 2 * rem > g THEN "up"
          ELSE IF 2 * rem < g THEN "down"
          ELSE IF last = 1 THEN "up" ELSE "down")
    ELSE LET bit == IF 2 * rem >= g THEN 1 ELSE 0
         IN  DivideBits(2 * rem - bit * g, g, bits - 1, bit)

MantissaBits == 53

DoubleRounds(a, g) == DivideBits(Normalize(a, g) - g, g, MantissaBits - 1, 1)

Million == 1000000

\* (a / g).toFixed(6), as the integer its six decimals spell: the n for which
\* n / 10^6 is nearest to the double a / g, the larger n on a tie.  The double
\* is within 2^-53 of a / g, so it lies where a / g lies unless a / g is
\* itself half-way between two n: then the double's side decides.
ToFixed6(a, g) ==
    LET q   == (a * Million) \div g
        rem == (a * Million) % g
    IN  IF a = 0 THEN 0
        ELSE IF 2 * rem > g THEN q + 1
        ELSE IF 2 * rem < g THEN q
        ELSE IF DoubleRounds(a, g) = "down" THEN q ELSE q + 1

\* grossTotal > 0 ? (attendTotal / grossTotal).toFixed(6) : 0
\* toFixed yields a string of six decimals, the other branch the number 0.
Rate(attendTotal, grossTotal) ==
    IF grossTotal > 0
    THEN [type |-> "string", millionths |-> ToFixed6(attendTotal, grossTotal)]
    ELSE [type |-> "number", millionths |-> 0]

\* The summary object of the return value.
Summary(run) ==
    [grossTotal    |-> run.grossTotal,
     attendTotal   |-> run.attendTotal,
     attendUnique  |-> Cardinality(run.attendUniq),
     rate          |-> Rate(run.attendTotal, run.grossTotal),
     ignoredNoKey  |-> run.ignoredNoKey,
     ignoredNoName |-> run.ignoredNoName]

\* ------------------------------------------------------------------ state
VARIABLES
    files,      \* the list handed to aggregate: the files' names, in order
    cfg,        \* the configuration handed to aggregate
    given,      \* SpecGiven: each file's decode outcome, fixed up front
    pc,         \* "idle", "parsing" (suspended on await parseCSV), "done"
    toProcess,  \* indices into files that survived the filter
    pos,        \* position of the for-of loop in toProcess
    run,        \* aggregate's accumulators (master, totals, skipped, ...)
    obs,        \* history: what the rows of the processed files contained
    decoding,   \* positions of toProcess whose parseCSV is in flight
    calc,       \* SpecRate: two totals and the rate computed from them
    uploadedFiles,  \* SpecUI: the upload list (File objects)
    inputs,     \* SpecUI: the values of the settings inputs
    runBtn,     \* SpecUI: the run button ([disabled |-> BOOLEAN])
    result,     \* SpecUI: the page's `result` variable
    runs,       \* SpecUI: the click handlers suspended in aggregate (a bag)
    alertOpen   \* SpecUI: the click handler is blocked in alert()

coreVars == <<files, cfg, given, pc, toProcess, pos, run, obs, decoding>>

uiVars == <<uploadedFiles, inputs, runBtn, result, runs, alertOpen>>

vars == <<coreVars, calc, uiVars>>

\* --------------------------------------------------- history of the input
NoObs ==
    [attended |-> <<>>, firstName |-> <<>>, everAttended |-> {},
     applicants |-> 0, attendees |-> 0,
     invalid |-> 0, noKey |-> 0, noName |-> 0, failed |-> 0,
     repeats |-> FALSE, respelled |-> FALSE, bothAbsent |-> FALSE]

\* The three cells of each row, as the row loop reads them.
RECURSIVE ReadRows(_, _)
ReadRows(rows, c) ==
    IF rows = <<>> THEN <<>>
    ELSE << [pk     |-> Cell(Head(rows), c.pkIdx),
             name   |-> Cell(Head(rows), c.nameIdx),
             status |-> Cell(Head(rows), c.statusIdx)] >> \o ReadRows(Tail(rows), c)

\* The record of one more processed file, read off its data rows.
Observe(o, rows, c) ==
    LET cells      == ReadRows(rows, c)
        idx        == 1..Len(cells)
        validIdx   == {i \in idx : cells[i].pk # <<>> /\ cells[i].name # <<>>}
        matchIdx   == {i \in validIdx : StatusMatches(cells[i].status, c.condition)}
        applicants == {cells[i].pk : i \in validIdx}
        attendees  == {cells[i].pk : i \in matchIdx}
        firstRow(k) == CHOOSE i \in validIdx :
                          /\ cells[i].pk = k
                          /\ \A j \in validIdx : cells[j].pk = k => i <= j
        firstName  == [k \in DOMAIN o.firstName \cup applicants |->
                          IF k \in DOMAIN o.firstName THEN o.firstName[k]
                          ELSE cells[firstRow(k)].name]
    IN  [attended |->
            [k \in DOMAIN o.attended \cup applicants |->
                (IF k \in DOMAIN o.attended THEN o.attended[k] ELSE 0)
                + (IF k \in attendees THEN 1 ELSE 0)],
         firstName |-> firstName,
         everAttended |-> o.everAttended \cup attendees,
         applicants |-> o.applicants + Cardinality(applicants),
         attendees  |-> o.attendees + Cardinality(attendees),
         invalid |-> o.invalid + (Len(rows) - Cardinality(validIdx)),
         noKey  |-> o.noKey + Cardinality({i \in idx : cells[i].pk = <<>>}),
         noName |-> o.noName + Cardinality({i \in idx :
                        cells[i].pk # <<>> /\ cells[i].name = <<>>}),
         failed |-> o.failed,
         repeats |-> o.repeats \/ \E i, j \in matchIdx :
                        i # j /\ cells[i].pk = cells[j].pk,
         respelled |-> o.respelled \/ \E i \in validIdx :
                        cells[i].name # firstName[cells[i].pk],
         bothAbsent |-> o.bothAbsent \/ \E i \in idx :
                        cells[i].pk = <<>> /\ cells[i].name = <<>>]

\* ---------------------------------------------------------------- actions
FileLists == SeqsUpTo(FileNames, MaxFiles)

\* No rate computed (yet).
NoRate == [type |-> "none", millionths |-> 0]

NoCalc == [attendTotal |-> 0, grossTotal |-> 0, rate |-> NoRate]

\* The page as constructed: empty upload list, DEFAULT_SETTINGS in the
\* inputs, the run button disabled by the first updateRunBtn, no result.
Str_E == <<"E">>
Str_B == <<"B">>
Str_H == <<"H">>
Str_1 == <<"1">>

DefaultSettings ==
    [headerRow |-> Str_1, pkCol |-> Str_E, nameCol |-> Str_B, statusCol |-> Str_H,
     condition |-> Str_approved]

Null == [isNull |-> TRUE]

PageLoaded ==
    /\ uploadedFiles = <<>>
    /\ inputs = DefaultSettings
    /\ runBtn = [disabled |-> TRUE]
    /\ result = Null
    /\ runs = EmptyBag
    /\ alertOpen = FALSE

Init ==
    /\ files \in FileLists
    /\ cfg \in Configs
    /\ given = <<>>
    /\ pc = "idle"
    /\ toProcess = <<>>
    /\ pos = 0
    /\ run = FreshRun(<<>>)
    /\ obs = NoObs
    /\ decoding = {}
    /\ calc = NoCalc
    /\ PageLoaded

\* Every parseCSV call issued up front, the results awaited afterwards.
NextDecodes_All(p, list) == p..Len(list)

\* const rows = await parseCSV(file, headerRow): the one call the loop makes
\* before it suspends.
NextDecodes(p, list) == IF p > Len(list) THEN {} ELSE {p}

\* for (const file of toProcess): the next await, or the return
LoopFrom(p, list) ==
    /\ pos' = p
    /\ pc' = IF p > Len(list) THEN "done" ELSE "parsing"
    /\ decoding' = NextDecodes(p, list)

\* aggregate(files, cfg) up to its first await
Aggregate ==
    /\ pc = "idle"
    /\ toProcess' = ToProcess(files)
    /\ run' = FreshRun(SkippedDuplicates(files))
    /\ LoopFrom(1, ToProcess(files))
    /\ UNCHANGED <<files, cfg, given, obs, calc, uiVars>>

\* parseCSV resolved with result.data.slice(headerRow)
Resolved(data) ==
    /\ pc = "parsing"
    /\ pos \in decoding
    /\ LET rows == Slice(data, cfg.headerRow)
       IN  /\ run' = FoldFile(run, rows, cfg)
           /\ obs' = Observe(obs, rows, cfg)
    /\ LoopFrom(pos + 1, toProcess)
    /\ UNCHANGED <<files, cfg, given, toProcess, calc, uiVars>>

\* No try/catch around the await: the rejection ends the run.
Rejected_Aborts ==
    /\ pc = "parsing"
    /\ pc' = "done"
    /\ decoding' = {}
    /\ obs' = [obs EXCEPT !.failed = @ + 1]
    /\ UNCHANGED <<files, cfg, given, toProcess, pos, run, calc, uiVars>>

\* parseCSV rejected (readText failed)
Rejected ==
    /\ pc = "parsing"
    /\ pos \in decoding
    /\ run' = SkipFile(run, files[toProcess[pos]])
    /\ obs' = [obs EXCEPT !.failed = @ + 1]
    /\ LoopFrom(pos + 1, toProcess)
    /\ UNCHANGED <<files, cfg, given, toProcess, calc, uiVars>>

ParseResolves == \E data \in DataPool : Resolved(data)

ParseRejects == Rejected

Next == Aggregate \/ ParseResolves \/ ParseRejects

Spec == Init /\ [][Next]_vars

\* ------------------------------------ runs over inputs fixed in advance
\* SpecGiven also runs with the key and name columns swapped, a mixed-case
\* condition and two leading lines dropped.
GivenConfigs ==
    Configs \cup
    { [pkIdx |-> 1, nameIdx |-> 0, statusIdx |-> 2,
       condition |-> Str_Approved, headerRow |-> 2] }

GivenNames == {"a.csv", "b.csv", "__proto__"}

GivenOutcomes ==
    { [ok |-> FALSE, data |-> <<>>],
      [ok |-> TRUE,  data |-> <<HeaderLine, <<Str_K1, Str_Alice, Str_Approved>> >>],
      [ok |-> TRUE,  data |-> <<HeaderLine,
            << <<" ","K","1"," ">>, <<"A","l","i","c","i","a"," ">>, Str_declined >>,
            << Str_K2, Str_Bob, <<" ","A","P","P","R","O","V","E","D","\t">> >> >>],
      [ok |-> TRUE,  data |-> <<HeaderLine,
            << <<" ">> >>, <<Str_K2, <<>>, Str_approved>>,
            <<Str_K1, Str_Bob, Str_approved>> >>] }

InitGiven ==
    /\ files \in SeqsUpTo(GivenNames, MaxGiven)
    /\ cfg \in GivenConfigs
    /\ given \in [1..Len(files) -> GivenOutcomes]
    /\ pc = "idle"
    /\ toProcess = <<>>
    /\ pos = 0
    /\ run = FreshRun(<<>>)
    /\ obs = NoObs
    /\ decoding = {}
    /\ calc = NoCalc
    /\ PageLoaded

GivenResolves ==
    /\ pc = "parsing"
    /\ given[toProcess[pos]].ok
    /\ Resolved(given[toProcess[pos]].data)

GivenRejects ==
    /\ pc = "parsing"
    /\ ~given[toProcess[pos]].ok
    /\ Rejected

NextGiven == Aggregate \/ GivenResolves \/ GivenRejects

SpecGiven == InitGiven /\ [][NextGiven]_vars

\* ----------------------------------------------- the rate on given totals
\* aggregate's accumulators and loop at rest, for the specifications that
\* exercise another part of the program.
CoreIdle ==
    /\ files = <<>>
    /\ cfg \in Configs
    /\ given = <<>>
    /\ pc = "idle"
    /\ toProcess = <<>>
    /\ pos = 0
    /\ run = FreshRun(<<>>)
    /\ obs = NoObs
    /\ decoding = {}

\* Largest grossTotal of which SpecRate takes every attendTotal.
RateMaxGross == 12

\* Totals whose quotient lies half-way between two six-decimal numbers:
\* 1/128 is a double, the quotients by 640 are not.
RateTies == {<<1, 128>>, <<3, 640>>, <<637, 640>>}

\* <<attendTotal, grossTotal>> as the loop can leave them.
RateTotals ==
    {t \in (0..RateMaxGross) \X (0..RateMaxGross) : t[1] <= t[2]} \cup RateTies

InitRate ==
    /\ CoreIdle
    /\ PageLoaded
    /\ calc \in {[attendTotal |-> t[1], grossTotal |-> t[2], rate |-> NoRate] :
                    t \in RateTotals}

ComputeRate ==
    /\ calc.rate = NoRate
    /\ calc' = [calc EXCEPT !.rate = Rate(calc.attendTotal, calc.grossTotal)]
    /\ UNCHANGED <<coreVars, uiVars>>

NextRate == ComputeRate

SpecRate == InitRate /\ [][NextRate]_vars

\* --------------------------------------------------------------- the page
\* Longest upload list in SpecUI.
MaxUpload == 2
\* Most click handlers suspended in aggregate at once in SpecUI.
MaxInFlight == 2

ToUpperChar(c) ==
    IF \E u \in DOMAIN LowerOf : LowerOf[u] = c
    THEN CHOOSE u \in DOMAIN LowerOf : LowerOf[u] = c
    ELSE c

\* String.prototype.toUpperCase
ToUpperCase(s) == [i \in 1..Len(s) |-> ToUpperChar(s[i])]

\* /[A-Z]/
IsUpperLetter(ch) == ch \in DOMAIN LowerOf

\* col.charCodeAt(i) - 64 of an upper-case letter
LetterNumber(ch) == CHOOSE i \in 1..Len(Alphabet) : Alphabet[i] = LowerOf[ch]

LettersInAlphabet == 26

RECURSIVE Base26(_, _)
Base26(col, idx) ==
    IF col = <<>> THEN idx
    ELSE Base26(Tail(col), idx * LettersInAlphabet + LetterNumber(Head(col)))

\* colLetterToIndex
ColLetterToIndex(col) ==
    LET c == SelectSeq(Trim(ToUpperCase(col)), IsUpperLetter)
    IN  IF c = <<>> THEN -1 ELSE Base26(c, 0) - 1

\* parseInt on a string of digits after optional white space; 0 stands for
\* NaN as well, which `|| 1` treats alike.
RECURSIVE ParseDigits(_, _)
ParseDigits(s, n) ==
    IF s # <<>> /\ \E i \in 1..Len(Digits) : Digits[i] = Head(s)
    THEN ParseDigits(Tail(s),
                     n * Len(Digits) + (CHOOSE i \in 1..Len(Digits) : Digits[i] = Head(s)) - 1)
    ELSE n

\* Math.max(1, parseInt(headerRowInput.value) || 1)
HeaderRowOf(value) ==
    LET n == ParseDigits(TrimStart(value), 0)
    IN  IF n = 0 \/ n < 1 THEN 1 ELSE n

\* The condition handed over as typed.
HandlerCondition_Raw(value) == value

\* condition: condInput.value.trim()
HandlerCondition(value) == Trim(value)

\* The cfg object the click handler builds from the inputs.
HandlerCfg(in) ==
    [pkIdx     |-> ColLetterToIndex(in.pkCol),
     nameIdx   |-> ColLetterToIndex(in.nameCol),
     statusIdx |-> ColLetterToIndex(in.statusCol),
     condition |-> HandlerCondition(in.condition),
     headerRow |-> HeaderRowOf(in.headerRow)]

\* The run refused only when no column resolves.
InvalidColumns_All(c) == c.pkIdx < 0 /\ c.nameIdx < 0 /\ c.statusIdx < 0

\* pkIdx < 0 || nameIdx < 0 || statusIdx < 0
InvalidColumns(c) == c.pkIdx < 0 \/ c.nameIdx < 0 \/ c.statusIdx < 0

\* updateRunBtn's ok
RunBtnOk(list, in) ==
    /\ Len(list) > 0
    /\ \A f \in {"pkCol", "nameCol", "statusCol", "condition"} : Trim(in[f]) # <<>>

\* What the user types into the key column and the condition inputs.
TypedLabels == {<<"e">>, <<"1">>}

Str_PaddedCondition == <<" ","a","p","p","r","o","v","e","d","\t">>

TypedConditions == {Str_PaddedCondition}

\* Rows of the sheets the page's defaults are made for: name in column B,
\* key in column E, status in column H.
UIRow(key, name, status) == <<<<>>, name, <<>>, <<>>, key, <<>>, <<>>, status>>

UIHeader == UIRow(<<"i","d">>, <<"n","a","m","e">>, <<"s","t","a","t","u","s">>)

Str_k1 == <<"k","1">>

\* The File objects the user can drop: a sheet with three keys, two of them
\* apart only in case and one with a padded upper-case status, and a file
\* that cannot be read.  Dropping a file twice gives two files of one name.
FileOf ==
    [A |-> [name |-> "a.csv", ok |-> TRUE,
            data |-> <<UIHeader,
                       UIRow(Str_K1, Str_Alice, Str_Approved),
                       UIRow(Str_k1, Str_Bob, <<" ","A","P","P","R","O","V","E","D","\t">>),
                       UIRow(Str_K2, Str_Bob, Str_declined)>>],
     B |-> [name |-> "b.csv", ok |-> FALSE, data |-> <<>>]]

UploadPool == DOMAIN FileOf

NamesOf(list) == [i \in 1..Len(list) |-> FileOf[list[i]].name]

\* The keys in the order master.set first stored them.
RECURSIVE KeyOrder(_, _, _)
KeyOrder(order, rows, c) ==
    IF rows = <<>> THEN order
    ELSE LET pk   == Cell(Head(rows), c.pkIdx)
             name == Cell(Head(rows), c.nameIdx)
         IN  KeyOrder(IF pk # <<>> /\ name # <<>> /\ pk \notin SeqRange(order)
                      THEN Append(order, pk) ELSE order,
                      Tail(rows), c)

\* The object aggregate returns.
ReturnValue(acc, order) ==
    [processedCount |-> acc.processed,
     skipped        |-> acc.skipped,
     masterRows     |-> MasterRows(acc.master, order),
     summary        |-> Summary(acc)]

\* The loop walks the upload list as it is now.
LoopFile_Live(list, p, live) == IF p <= Len(live) THEN live[p] ELSE list[p]

\* for (const file of toProcess): the loop walks the array that files.filter
\* built, not `files`, which is the upload list itself.
LoopFile(list, p, live) == list[p]

\* The loop body on one file of a run suspended in aggregate.
AfterFile(r, file) ==
    IF FileOf[file].ok
    THEN LET rows == Slice(FileOf[file].data, r.cfg.headerRow)
         IN  [r EXCEPT !.acc = FoldFile(r.acc, rows, r.cfg),
                       !.order = KeyOrder(r.order, rows, r.cfg),
                       !.pos = @ + 1]
    ELSE [r EXCEPT !.acc = SkipFile(r.acc, FileOf[file].name), !.pos = @ + 1]

\* aggregate over a list of File objects as one function: the run r driven
\* to its return with nothing in between.
RECURSIVE RunToEnd(_)
RunToEnd(r) ==
    IF r.pos > Len(r.toProcess) THEN r
    ELSE RunToEnd(AfterFile(r, r.toProcess[r.pos]))

AggregateUI(list, c) ==
    LET names == NamesOf(list)
        end   == RunToEnd([cfg |-> c, toProcess |-> Pick(list, ToProcess(names)),
                           pos |-> 1, acc |-> FreshRun(SkippedDuplicates(names)),
                           order |-> <<>>])
    IN  ReturnValue(end.acc, end.order)

InitUI ==
    /\ CoreIdle
    /\ calc = NoCalc
    /\ PageLoaded

\* addFiles(newFiles), from a drop or the file dialog
AddFiles(newFiles) ==
    /\ ~alertOpen
    /\ uploadedFiles' = uploadedFiles \o newFiles
    /\ runBtn' = [disabled |-> ~RunBtnOk(uploadedFiles', inputs)]
    /\ UNCHANGED <<inputs, result, runs, alertOpen, coreVars, calc>>

\* removeFile(i)
RemoveFile(i) ==
    /\ ~alertOpen
    /\ uploadedFiles' = SubSeq(uploadedFiles, 1, i - 1)
                            \o SubSeq(uploadedFiles, i + 1, Len(uploadedFiles))
    /\ runBtn' = [disabled |-> ~RunBtnOk(uploadedFiles', inputs)]
    /\ UNCHANGED <<inputs, result, runs, alertOpen, coreVars, calc>>

\* The input listeners of a column field: updateRunBtn, then upper-casing.
ColumnInput(field, typed) ==
    /\ ~alertOpen
    /\ inputs' = [inputs EXCEPT ![field] = ToUpperCase(typed)]
    /\ runBtn' = [disabled |-> ~RunBtnOk(uploadedFiles,
                                          [inputs EXCEPT ![field] = typed])]
    /\ UNCHANGED <<uploadedFiles, result, runs, alertOpen, coreVars, calc>>

\* The input listener of the condition field: updateRunBtn.
ConditionInput(typed) ==
    /\ ~alertOpen
    /\ inputs' = [inputs EXCEPT !.condition = typed]
    /\ runBtn' = [disabled |-> ~RunBtnOk(uploadedFiles, inputs')]
    /\ UNCHANGED <<uploadedFiles, result, runs, alertOpen, coreVars, calc>>

\* The click handler of the run button, up to alert(), to the first await of
\* aggregate or, when toProcess is empty, to its own end.
RunClicked ==
    /\ ~alertOpen
    /\ ~runBtn.disabled
    /\ LET c     == HandlerCfg(inputs)
           names == NamesOf(uploadedFiles)
           list  == Pick(uploadedFiles, ToProcess(names))
           acc   == FreshRun(SkippedDuplicates(names))
       IN  IF InvalidColumns(c)
           THEN /\ alertOpen' = TRUE
                /\ UNCHANGED <<runBtn, result, runs>>
           ELSE IF list = <<>>
           THEN /\ result' = ReturnValue(acc, <<>>)
                /\ runBtn' = [disabled |-> ~RunBtnOk(uploadedFiles, inputs)]
                /\ UNCHANGED <<runs, alertOpen>>
           ELSE /\ BagCardinality(runs) < MaxInFlight
                /\ runs' = runs (+) SetToBag({[cfg |-> c, snapshot |-> uploadedFiles,
                                               toProcess |-> list, pos |-> 1,
                                               acc |-> acc, order |-> <<>>]})
                /\ result' = Null
                /\ runBtn' = [disabled |-> TRUE]
                /\ UNCHANGED alertOpen
    /\ UNCHANGED <<uploadedFiles, inputs, coreVars, calc>>

\* The user closes the alert; the handler returns.
AlertClosed ==
    /\ alertOpen
    /\ alertOpen' = FALSE
    /\ UNCHANGED <<uploadedFiles, inputs, runBtn, result, runs, coreVars, calc>>

\* parseCSV of the run r settles: the loop body, then the next await or the
\* return, `result = ...` and the finally block in the click handler.
Settled(r) ==
    /\ ~alertOpen
    /\ LET file == LoopFile(r.toProcess, r.pos, uploadedFiles)
           next == AfterFile(r, file)
       IN  IF next.pos > Len(r.toProcess)
           THEN /\ runs' = runs (-) SetToBag({r})
                /\ result' = ReturnValue(next.acc, next.order)
                /\ runBtn' = [disabled |-> ~RunBtnOk(uploadedFiles, inputs)]
           ELSE /\ runs' = (runs (-) SetToBag({r})) (+) SetToBag({next})
                /\ UNCHANGED <<result, runBtn>>
    /\ UNCHANGED <<uploadedFiles, inputs, alertOpen, coreVars, calc>>

FilesAdded ==
    \E newFiles \in SeqsUpTo(UploadPool, MaxUpload) :
        /\ Len(uploadedFiles) + Len(newFiles) <= MaxUpload
        /\ AddFiles(newFiles)

FileRemoved == \E i \in 1..Len(uploadedFiles) : RemoveFile(i)

KeyColumnTyped == \E typed \in TypedLabels : ColumnInput("pkCol", typed)

ConditionTyped == \E typed \in TypedConditions : ConditionInput(typed)

ParseSettles == \E r \in BagToSet(runs) : Settled(r)

NextUI ==
    \/ FilesAdded
    \/ FileRemoved
    \/ KeyColumnTyped
    \/ ConditionTyped
    \/ RunClicked
    \/ AlertClosed
    \/ ParseSettles

SpecUI == InitUI /\ [][NextUI]_vars

\* aggregate as a function of the whole input: the loop over toProcess with
\* every file's decode outcome known.
RECURSIVE RunLoop(_, _, _, _, _)
RunLoop(r, names, outcomes, list, c) ==
    IF list = <<>> THEN r
    ELSE LET i == Head(list)
         IN  RunLoop(IF outcomes[i].ok
                     THEN FoldFile(r, Slice(outcomes[i].data, c.headerRow), c)
                     ELSE SkipFile(r, names[i]),
                     names, outcomes, Tail(list), c)

AggregateAll(names, outcomes, c) ==
    RunLoop(FreshRun(SkippedDuplicates(names)), names, outcomes, ToProcess(names), c)

\* ----------------------------------------------------------------- claims
Occurrences(n) == Cardinality({i \in 1..Len(files) : files[i] = n})

DuplicateEntry(n) == [name |-> n, reason |-> "duplicate_filename"]

\* C1: once aggregate has filtered its input, every name that occurs more
\* than once in files has none of its files in toProcess (so none is decoded,
\* folded or counted as processed) and is listed in skipped with reason
\* duplicate_filename.
C1_DuplicateNamesSkipped ==
    pc # "idle" =>
        \A n \in SeqRange(files) :
            Occurrences(n) > 1 =>
                /\ \A j \in 1..Len(toProcess) : files[toProcess[j]] # n
                /\ DuplicateEntry(n) \in SeqRange(run.skipped)

\* C2: each key of the ledger has as attendanceCount the number of processed
\* files holding at least one valid row of that key whose status matches,
\* however many such rows a file holds.
C2_AttendanceCountPerKey ==
    /\ DOMAIN run.master = DOMAIN obs.attended
    /\ \A k \in DOMAIN run.master : run.master[k].count = obs.attended[k]

\* One processed file in which its only key stands on several matching rows:
\* counted once.
C2_Witness ==
    /\ pc = "done"
    /\ run.processed = 1
    /\ obs.repeats
    /\ \E k \in DOMAIN run.master : DOMAIN run.master = {k} /\ run.master[k].count = 1

ScenarioData == <<HeaderLine>> \o ScenarioRows

\* C3: grossTotal is the sum over the processed files of the number of
\* distinct keys with a valid row, attendTotal the sum of the number of
\* distinct keys with a valid matching row; the scenario's four rows under
\* condition 'approved' give 1, 1 and the ledger K1/Alice/1.
C3_Totals ==
    /\ run.grossTotal = obs.applicants
    /\ run.attendTotal = obs.attendees
    /\ cfg.condition = Str_approved =>
          LET r == FoldFile(FreshRun(<<>>), Slice(ScenarioData, cfg.headerRow), cfg)
          IN  /\ r.grossTotal = 1
              /\ r.attendTotal = 1
              /\ r.master = (Str_K1 :> [name |-> Str_Alice, count |-> 1])

\* The run over the scenario's file alone has ended.
C3_Witness ==
    /\ pc = "done"
    /\ run.processed = 1
    /\ run.ignoredNoKey = 1 /\ run.ignoredNoName = 1
    /\ obs.repeats
    /\ run.grossTotal = 1 /\ run.attendTotal = 1
    /\ run.master = (Str_K1 :> [name |-> Str_Alice, count |-> 1])

RECURSIVE SumCounts(_)
SumCounts(master) ==
    IF DOMAIN master = {} THEN 0
    ELSE LET k == CHOOSE x \in DOMAIN master : TRUE
         IN  master[k].count + SumCounts([x \in DOMAIN master \ {k} |-> master[x]])

\* C4: between two files and at the end, the attendanceCounts of the ledger
\* add up to attendTotal.
C4_CountsSumToAttendTotal == SumCounts(run.master) = run.attendTotal

\* A run with a duplicate name or a failed file, and two keys attending.
C4_Witness ==
    /\ pc = "done"
    /\ Len(run.skipped) > 0
    /\ run.attendTotal >= 2
    /\ Cardinality(run.attendUniq) = 2

\* C5: grossTotal >= attendTotal >= attendUnique >= 0 between two files and
\* at the end.
C5_TotalsOrdered ==
    /\ run.grossTotal >= run.attendTotal
    /\ run.attendTotal >= Cardinality(run.attendUniq)
    /\ Cardinality(run.attendUniq) >= 0

\* All three inequalities strict.
C5_Witness ==
    /\ pc = "done"
    /\ run.grossTotal > run.attendTotal
    /\ run.attendTotal > Cardinality(run.attendUniq)
    /\ Cardinality(run.attendUniq) > 0

\* C6: attendUniq holds exactly the keys that attended at least one processed
\* file, each once: a key is in it iff its attendanceCount is at least 1.
C6_AttendUnique ==
    /\ run.attendUniq = obs.everAttended
    /\ Cardinality(run.attendUniq) =
           Cardinality({k \in DOMAIN obs.attended : obs.attended[k] >= 1})
    /\ \A k \in DOMAIN run.master : k \in run.attendUniq <=> run.master[k].count >= 1

\* One key attended two events: count 2, one unique attendee.
C6_Witness ==
    /\ pc = "done"
    /\ \E k \in DOMAIN run.master : run.master[k].count = 2
    /\ Cardinality(run.attendUniq) = 1

\* The counts of a result: everything but the recorded names and skipped.
Counts(r) ==
    [processedCount |-> r.processed, grossTotal |-> r.grossTotal,
     attendTotal |-> r.attendTotal, attendUnique |-> Cardinality(r.attendUniq),
     ignoredNoKey |-> r.ignoredNoKey, ignoredNoName |-> r.ignoredNoName,
     attendanceCount |-> [k \in DOMAIN r.master |-> r.master[k].count]]

Permuted(seq, p) == [i \in 1..Len(seq) |-> seq[p[i]]]

\* C7: aggregate over any permutation of the file list (each file keeping
\* its decode outcome) yields the counts of the run that has just ended.
C7_OrderIndependentCounts ==
    pc = "done" =>
        \A p \in Permutations(1..Len(files)) :
            Counts(AggregateAll(Permuted(files, p), Permuted(given, p), cfg))
                = Counts(run)

\* A run whose counts survive a reordering that changes a recorded name.
C7_Witness ==
    /\ pc = "done"
    /\ run.processed >= 2
    /\ \E p \in Permutations(1..Len(files)) :
          LET r == AggregateAll(Permuted(files, p), Permuted(given, p), cfg)
          IN  \E k \in DOMAIN run.master : r.master[k].name # run.master[k].name

\* C8: the name recorded for a key is the trimmed name of the first valid row
\* of that key in processing order, and no step changes the name of a key
\* that is in the ledger.
C8_FirstSeenName ==
    /\ [](/\ DOMAIN run.master = DOMAIN obs.firstName
          /\ \A k \in DOMAIN run.master : run.master[k].name = obs.firstName[k])
    /\ [][\A k \in DOMAIN run.master :
             /\ k \in DOMAIN run'.master
             /\ run'.master[k].name = run.master[k].name]_vars

\* A later valid row spelled the name of its key differently.
C8_Witness ==
    /\ pc = "done"
    /\ obs.respelled
    /\ Str_K1 \in DOMAIN run.master
    /\ run.master[Str_K1].name = Str_Alice

\* The entries of skipped for the files of toProcess whose decoding failed.
RECURSIVE ParseErrors(_, _, _)
ParseErrors(names, outcomes, list) ==
    IF list = <<>> THEN <<>>
    ELSE (IF outcomes[Head(list)].ok THEN <<>>
          ELSE <<[name |-> names[Head(list)], reason |-> "parse_error"]>>)
         \o ParseErrors(names, outcomes, Tail(list))

\* The positions of the input without the files whose decoding failed.
RECURSIVE DecodedFrom(_, _, _)
DecodedFrom(outcomes, failed, i) ==
    IF i > Len(outcomes) THEN <<>>
    ELSE (IF i \in failed THEN <<>> ELSE <<i>>) \o DecodedFrom(outcomes, failed, i + 1)

\* C9: a run that has ended has the totals, counters, processedCount and
\* ledger of aggregate over the input without the files whose decoding
\* failed, and its skipped is that run's followed by one parse_error entry
\* per failed file.
C9_ParseFailureIsolated ==
    pc = "done" =>
        LET failed == {i \in SeqRange(toProcess) : ~given[i].ok}
            kept   == DecodedFrom(given, failed, 1)
            r      == AggregateAll(Pick(files, kept), Pick(given, kept), cfg)
        IN  run = [r EXCEPT !.skipped = @ \o ParseErrors(files, given, toProcess)]

\* A file failed to decode and a later file of the run was folded.
C9_Witness ==
    /\ pc = "done"
    /\ run.attendTotal > 0
    /\ \E i, j \in 1..Len(toProcess) :
          /\ i < j
          /\ ~given[toProcess[i]].ok
          /\ given[toProcess[j]].ok
          /\ Len(given[toProcess[j]].data) > 1

\* "Absent" read off the raw row: the cell is missing or holds only white space.
Absent(row, idx) ==
    \/ idx < 0
    \/ idx >= Len(row)
    \/ \A i \in 1..Len(row[idx + 1]) : row[idx + 1][i] \in WhiteSpace

\* C10: the ignored-row counters count the rows of the processed files with
\* the key absent, and with the key present and the name absent; with the
\* valid rows they add up to all data rows; and on the ledger and counters
\* reached so far, a row of either ignored class changes its counter by one
\* and nothing else, and a valid row changes neither counter.
C10_RowValidation ==
    /\ run.ignoredNoKey = obs.noKey
    /\ run.ignoredNoName = obs.noName
    /\ run.ignoredNoKey + run.ignoredNoName = obs.invalid
    /\ \A row \in RowPool :
          LET before == NewEvent(run)
              after  == ProcessRow(before, row, cfg)
          IN  IF Absent(row, cfg.pkIdx)
              THEN after = [before EXCEPT !.ignoredNoKey = @ + 1]
              ELSE IF Absent(row, cfg.nameIdx)
              THEN after = [before EXCEPT !.ignoredNoName = @ + 1]
              ELSE /\ after.ignoredNoKey = before.ignoredNoKey
                   /\ after.ignoredNoName = before.ignoredNoName
                   /\ after.eventApplicants # {}

\* Rows of all three classes were read, one with key and name both absent.
C10_Witness ==
    /\ pc = "done"
    /\ run.ignoredNoKey >= 1
    /\ run.ignoredNoName >= 1
    /\ run.grossTotal >= 1
    /\ obs.bothAbsent

C15_FilterShape ==
    pc # "idle" =>
        /\ toProcess = SelectSeq([i \in 1..Len(files) |-> i],
                                 LAMBDA i : Occurrences(files[i]) = 1)
        /\ \A n \in SeqRange(files) :
              Cardinality({j \in 1..Len(run.skipped) :
                              run.skipped[j] = DuplicateEntry(n)})
                 = IF Occurrences(n) > 1 THEN 1 ELSE 0

\* C20: when a run has ended, processedCount, the parse_error entries and
\* the input files whose name is listed as duplicate_filename add up to the
\* number of input files; each file is of exactly one of the three kinds.
C20_EveryFileAccounted ==
    pc = "done" =>
        LET idx       == 1..Len(files)
            processed == {i \in SeqRange(toProcess) : given[i].ok}
            failed    == {i \in SeqRange(toProcess) : ~given[i].ok}
            dupFiles  == {i \in idx : DuplicateEntry(files[i]) \in SeqRange(run.skipped)}
            parseErrs == {j \in 1..Len(run.skipped) :
                             run.skipped[j].reason = "parse_error"}
        IN  /\ run.processed + Cardinality(parseErrs) + Cardinality(dupFiles)
                  = Len(files)
            /\ run.processed = Cardinality(processed)
            /\ Cardinality(parseErrs) = Cardinality(failed)
            /\ processed \cup failed \cup dupFiles = idx
            /\ (processed \cup failed) \cap dupFiles = {}

\* Two files share a name and are skipped, the third is processed.
C20_Witness ==
    /\ pc = "done"
    /\ Len(files) = 3
    /\ run.processed = 1
    /\ Len(toProcess) = 1
    /\ run.skipped = <<DuplicateEntry("a.csv")>>

\* C14: with grossTotal 0 the rate is the number 0; otherwise it is
\* attendTotal / grossTotal rounded to six decimals, that is
\* round(attendTotal * 10^6 / grossTotal) / 10^6 with halves rounded up, and
\* it lies between 0 and 1.
C14_Rate ==
    calc.rate # NoRate =>
        IF calc.grossTotal = 0
        THEN calc.rate = [type |-> "number", millionths |-> 0]
        ELSE /\ calc.rate.millionths =
                   (2 * calc.attendTotal * Million + calc.grossTotal)
                       \div (2 * calc.grossTotal)
             /\ calc.rate.millionths >= 0
             /\ calc.rate.millionths <= Million

\* C17: while a run is suspended, the only decoding in flight is that of the
\* file at the loop's position, every file before it has been folded or
\* recorded as parse_error, and nothing of the file being decoded has been
\* folded; no decoding is in flight before the run or after it.
C17_OneFileAtATime ==
    /\ Cardinality(decoding) <= 1
    /\ pc # "parsing" => decoding = {}
    /\ pc = "parsing" =>
          /\ decoding = {pos}
          /\ pos \in 1..Len(toProcess)
          /\ run.processed + obs.failed = pos - 1
          /\ Cardinality({j \in 1..Len(run.skipped) :
                             run.skipped[j].reason = "parse_error"}) = obs.failed
    /\ pc = "done" => run.processed + obs.failed = Len(toProcess)

\* The second file is being decoded after the rows of the first were folded.
C17_Witness ==
    /\ pc = "parsing"
    /\ decoding = {2}
    /\ run.processed = 1
    /\ run.grossTotal >= 1

\* The cell as the decoded row holds it, untrimmed.
RawCell(row, idx) == IF idx >= 0 /\ idx < Len(row) THEN row[idx + 1] ELSE <<>>

\* The runs the step starts: the click handler has called aggregate.
Started(r) == r.pos = 1 /\ CopiesIn(r, runs') > CopiesIn(r, runs)

\* C11: in a run started from the page, a valid row puts its key into the
\* event's attendees if and only if its status cell, trimmed, and the
\* condition as it stands in the input at the click, trimmed, are equal
\* without regard to case.  (aggregate trims the cell, the click handler the
\* condition.)
C11_AttendanceCondition ==
    [][\A r \in BagToSet(runs') :
          Started(r) =>
            \A f \in UploadPool :
              \A row \in SeqRange(Slice(FileOf[f].data, r.cfg.headerRow)) :
                LET after == ProcessRow(NewEvent(r.acc), row, r.cfg)
                    key   == Trim(RawCell(row, r.cfg.pkIdx))
                IN  (~Absent(row, r.cfg.pkIdx) /\ ~Absent(row, r.cfg.nameIdx)) =>
                        (key \in after.eventAttendees
                            <=> ToLowerCase(Trim(RawCell(row, r.cfg.statusIdx)))
                                    = ToLowerCase(Trim(inputs.condition)))]_vars

\* Under a padded condition a run has folded the sheet: the row whose status
\* differs in case and the row whose status is padded both matched.
C11_Witness ==
    /\ inputs.condition = Str_PaddedCondition
    /\ result = Null
    /\ \E r \in BagToSet(runs) :
          /\ r.pos = 2
          /\ r.acc.attendTotal = 2
          /\ r.acc.grossTotal = 3

\* C12: in every result, of two adjacent rows of masterRows the earlier has
\* the greater or equal attendanceCount, and with equal counts its key does
\* not sort after the later one's under localeCompare.
C12_MasterRowsSorted ==
    result # Null =>
        \A i \in 1..(Len(result.masterRows) - 1) :
            LET a == result.masterRows[i]
                b == result.masterRows[i + 1]
            IN  /\ a[3] >= b[3]
                /\ a[3] = b[3] => LocaleCompare(a[1], b[1]) <= 0

\* Three rows, stored as K1, k1, K2: the tie of K1 and k1 is broken by case,
\* K2 with count 0 comes last.
C12_Witness ==
    /\ result # Null
    /\ Len(result.masterRows) = 3
    /\ [i \in 1..3 |-> result.masterRows[i][1]] = <<Str_k1, Str_K1, Str_K2>>
    /\ [i \in 1..3 |-> result.masterRows[i][3]] = <<1, 1, 0>>

\* A column label of the inputs has no letter A-Z, so that it resolves to -1.
InvalidLabels ==
    \E f \in {"pkCol", "nameCol", "statusCol"} :
        \A i \in 1..Len(inputs[f]) : ToUpperChar(inputs[f][i]) \notin DOMAIN LowerOf

\* C16: no run is ever in aggregate with a negative column index; while a
\* label is invalid no step starts a run or produces a result other than the
\* end of a run started before; and the step that raises the alert leaves the
\* runs, the result, the button and the upload list as they were.
C16_InvalidColumnsRefused ==
    /\ [](\A r \in BagToSet(runs) :
             r.cfg.pkIdx >= 0 /\ r.cfg.nameIdx >= 0 /\ r.cfg.statusIdx >= 0)
    /\ [][InvalidLabels =>
             /\ BagCardinality(runs') <= BagCardinality(runs)
             /\ result' = result \/ BagCardinality(runs') < BagCardinality(runs)]_vars
    /\ [][(~alertOpen /\ alertOpen') =>
             /\ InvalidLabels
             /\ UNCHANGED <<runs, result, runBtn, uploadedFiles, inputs>>]_vars

\* The click was refused with files uploaded and the result of an earlier
\* run on the page: it stays, and no run is in flight.
C16_Witness ==
    /\ alertOpen
    /\ InvalidLabels
    /\ Len(uploadedFiles) > 0
    /\ result # Null
    /\ BagCardinality(runs) = 0

\* C18: at most one run is in flight, and while one is, the run button is
\* disabled.
C18_OneRunInFlight ==
    /\ BagCardinality(runs) <= 1
    /\ BagCardinality(runs) > 0 => runBtn.disabled

\* C19: a run in flight works on the files that the filter kept of the
\* upload list as it was at the click (snapshot), whatever the list is now,
\* and is on its way to the result of aggregate over that list; when it
\* ends, `result` is that result.
C19_RunsOnSnapshot ==
    /\ [](\A r \in BagToSet(runs) :
             /\ r.toProcess = Pick(r.snapshot, ToProcess(NamesOf(r.snapshot)))
             /\ LET end == RunToEnd(r)
                IN  ReturnValue(end.acc, end.order) = AggregateUI(r.snapshot, r.cfg))
    /\ [][\A r \in BagToSet(runs) :
             (r.pos = Len(r.toProcess) /\ runs' = runs (-) SetToBag({r}))
                 => result' = AggregateUI(r.snapshot, r.cfg)]_vars

\* A run started on A, B has folded A and waits for B, while B was removed
\* from the upload list and A dropped once more.
C19_Witness ==
    /\ uploadedFiles = <<"A", "A">>
    /\ \E r \in BagToSet(runs) :
          /\ r.snapshot = <<"A", "B">>
          /\ r.pos = 2
          /\ r.acc.processed = 1

====
